---- MODULE Spec2Model ----
(***************************************************************************)
(* Model of the file-test differ (packages/betterer/src/test/file-test/    *)
(* differ.ts) and of the CLI merge command action (packages/cli/src/       *)
(* merge.ts).                                                              *)
(*                                                                         *)
(* Objects compared by reference in the source (files, issues) are         *)
(* represented by their index in the array that owns them, so that two     *)
(* issues with equal fields stay two distinct objects.                     *)
(***************************************************************************)
EXTENDS Integers, Sequences, FiniteSets, TLC

VARIABLES
    expected,             \* expectedΩ.files
    result,               \* resultΩ.files
    pc,                   \* position inside differ()
    unchangedResultFiles, \* indices into result
    changedResultFiles,   \* indices into result
    newOrMovedFiles,      \* indices into result
    fixedOrMovedFiles,    \* indices into expected
    movedFiles,           \* Map in insertion order: <<[moved, from]>>
    index,                \* forEach index over fixedOrMovedFiles (1-based)
    len,                  \* length of fixedOrMovedFiles when forEach started
    existingFiles,        \* indices into result
    cursor,               \* forEach index over existingFiles (1-based)
    matched,              \* locals of each finished existingFiles callback
    diff,                 \* object as insertion-ordered <<[path, entry]>>
    logs,
    mpc,                  \* position inside the merge command action
    cwd,
    config,
    args,                 \* command.args
    env,                  \* what setEnv received
    options,
    mergeCall,            \* options betterer.merge was called with
    exitCode,             \* process.exitCode: <<>> is undefined, <<n>> is n
    exitCode0,            \* process.exitCode when the action started
    outcome,              \* what betterer.merge did
    settled               \* how the action's promise settled

differVars == <<expected, result, pc, unchangedResultFiles, changedResultFiles,
                newOrMovedFiles, fixedOrMovedFiles, movedFiles, index, len,
                existingFiles, cursor, matched, diff, logs>>

mergeVars == <<mpc, cwd, config, args, env, options, mergeCall, exitCode,
               exitCode0, outcome, settled>>

vars == <<differVars, mergeVars>>

----------------------------------------------------------------------------
(* Bounds of the explored inputs *)

MaxIssues == 2
MaxFiles == 2
MaxContents == 2

Lines == {1, 2}
Columns == {1, 2}
Hashes == {"X", "Y"}
FileHashes == {"H1", "H2"}
ExpectedPaths == {"a", "b"}
ResultPaths == {"a", "b", "c", "d"}

----------------------------------------------------------------------------
(* Generic helpers *)

Abs(n) == IF n < 0 THEN -n ELSE n

Min(a, b) == IF a <= b THEN a ELSE b

Range(s) == {s[i] : i \in 1..Len(s)}

Indices(s) == [i \in 1..Len(s) |-> i]

\* Array.prototype.indexOf, 1-based; 0 when absent
IndexOf(s, x) ==
    IF \E i \in 1..Len(s) : s[i] = x
    THEN CHOOSE i \in 1..Len(s) : s[i] = x /\ \A j \in 1..(i - 1) : s[j] # x
    ELSE 0

\* Array.prototype.splice(at, 1) with a 1-based index inside the array
RemoveAt(s, at) == [i \in 1..(Len(s) - 1) |-> IF i < at THEN s[i] ELSE s[i + 1]]

\* A splice that always gets -1 from indexOf, and so removes the last element
SpliceOut_last(s, x) == IF Len(s) = 0 THEN s ELSE RemoveAt(s, Len(s))

\* splice(indexOf(x), 1): indexOf gives -1 when x is absent, and splice(-1, 1)
\* removes the last element
SpliceOut(s, x) ==
    IF IndexOf(s, x) = 0
    THEN (IF Len(s) = 0 THEN s ELSE RemoveAt(s, Len(s)))
    ELSE RemoveAt(s, IndexOf(s, x))

SeqsUpTo(S, n) == UNION {[1..k -> S] : k \in 0..n}

----------------------------------------------------------------------------
(* Issues and files *)

serialiseIssue(issue) ==
    <<issue.line, issue.column, issue.length, issue.message, issue.hash>>

SerialiseAll(issues, idxs) == [i \in 1..Len(idxs) |-> serialiseIssue(issues[idxs[i]])]

\* the callback of the find() calls of the exact-match pass
SameIssue(e, r) ==
    /\ e.line = r.line
    /\ e.column = r.column
    /\ e.length = r.length
    /\ e.hash = r.hash

UnchangedExpectedIssues(expectedIssues, resultIssues) ==
    LET Keep(i) == \E j \in 1..Len(resultIssues) :
                       SameIssue(resultIssues[j], expectedIssues[i])
    IN  SelectSeq(Indices(expectedIssues), Keep)

UnchangedResultIssues(expectedIssues, resultIssues) ==
    LET Keep(j) == \E i \in 1..Len(expectedIssues) :
                       SameIssue(expectedIssues[i], resultIssues[j])
    IN  SelectSeq(Indices(resultIssues), Keep)

NewOrMovedIssues(expectedIssues, resultIssues) ==
    LET unchanged == Range(UnchangedResultIssues(expectedIssues, resultIssues))
        Keep(j) == j \notin unchanged
    IN  SelectSeq(Indices(resultIssues), Keep)

FixedOrMovedIssues(expectedIssues, resultIssues) ==
    LET unchanged == Range(UnchangedExpectedIssues(expectedIssues, resultIssues))
        Keep(i) == i \notin unchanged
    IN  SelectSeq(Indices(expectedIssues), Keep)

----------------------------------------------------------------------------
(* Issue-level matching of one pair of files *)

\* A filter that forgets to compare the hashes
IssuePossibilities_any(fixedOrMovedIssue, resultIssues, newOrMovedIssues) ==
    newOrMovedIssues

\* newOrMovedIssues.filter((newOrMovedIssue) => newOrMovedIssue.hash === hash)
IssuePossibilities(fixedOrMovedIssue, resultIssues, newOrMovedIssues) ==
    LET Keep(j) == resultIssues[j].hash = fixedOrMovedIssue.hash
    IN  SelectSeq(newOrMovedIssues, Keep)

\* The body of possibilities.forEach: the value of `best` after the callback
\* ran for `possibility`
Closer(fixedOrMovedIssue, resultIssues, best, possibility) ==
    LET line == fixedOrMovedIssue.line
        column == fixedOrMovedIssue.column
        p == resultIssues[possibility]
        b == resultIssues[best]
    IN  IF Abs(line - p.line) >= Abs(line - b.line)
        THEN best
        ELSE LET best1 == IF Abs(line - p.line) < Abs(line - b.line)
                          THEN possibility ELSE best
                 b1 == resultIssues[best1]
             IN  IF Abs(column - p.column) >= Abs(column - b1.column)
                 THEN best1
                 ELSE IF Abs(column - p.column) < Abs(column - b1.column)
                      THEN possibility ELSE best1

RECURSIVE Closest(_, _, _, _)
Closest(fixedOrMovedIssue, resultIssues, best, possibilities) ==
    IF possibilities = <<>>
    THEN best
    ELSE Closest(fixedOrMovedIssue, resultIssues,
                 Closer(fixedOrMovedIssue, resultIssues, best, Head(possibilities)),
                 Tail(possibilities))

\* let best = possibilities.shift(); possibilities.forEach(...)
Best(fixedOrMovedIssue, resultIssues, possibilities) ==
    Closest(fixedOrMovedIssue, resultIssues, Head(possibilities), Tail(possibilities))

\* fixedOrMovedIssues.forEach: `todo` is what is left to visit. `choices`
\* remembers, for every moved issue, the pool it was chosen from.
RECURSIVE MatchIssues(_, _, _, _, _, _, _)
MatchIssues(expectedIssues, resultIssues, todo, newOrMovedIssues, movedIssues, fixedIssues, choices) ==
    IF todo = <<>>
    THEN [newOrMovedIssues |-> newOrMovedIssues, movedIssues |-> movedIssues,
          fixedIssues |-> fixedIssues, choices |-> choices]
    ELSE LET i == Head(todo)
             possibilities ==
                 IssuePossibilities(expectedIssues[i], resultIssues, newOrMovedIssues)
         IN  IF Len(possibilities) = 0
             THEN MatchIssues(expectedIssues, resultIssues, Tail(todo),
                              newOrMovedIssues, movedIssues,
                              Append(fixedIssues, i), choices)
             ELSE LET best == Best(expectedIssues[i], resultIssues, possibilities)
                  IN  MatchIssues(expectedIssues, resultIssues, Tail(todo),
                                  SpliceOut(newOrMovedIssues, best),
                                  Append(movedIssues, best), fixedIssues,
                                  Append(choices, [from |-> i, best |-> best,
                                                   possibilities |-> possibilities]))

\* The locals of one existingFiles callback
DiffIssues(expectedIssues, resultIssues) ==
    LET m == MatchIssues(expectedIssues, resultIssues,
                         FixedOrMovedIssues(expectedIssues, resultIssues),
                         NewOrMovedIssues(expectedIssues, resultIssues),
                         <<>>, <<>>, <<>>)
    IN  [unchangedExpectedIssues |-> UnchangedExpectedIssues(expectedIssues, resultIssues),
         unchangedResultIssues |-> UnchangedResultIssues(expectedIssues, resultIssues),
         movedIssues |-> m.movedIssues,
         fixedIssues |-> m.fixedIssues,
         newIssues |-> m.newOrMovedIssues,
         choices |-> m.choices]

\* The gate with the second negation missing
NoChange_missingNot(newIssues, fixedIssues) ==
    Len(newIssues) = 0 /\ Len(fixedIssues) # 0

\* if (!newIssues.length && !fixedIssues.length) return;
NoChange(newIssues, fixedIssues) == Len(newIssues) = 0 /\ Len(fixedIssues) = 0

\* The FileDiff written for a file that went through issue matching
ExistingEntry(expectedIssues, resultIssues, d) ==
    [existing |-> SerialiseAll(expectedIssues, d.unchangedExpectedIssues)
                    \o SerialiseAll(resultIssues, d.movedIssues),
     fixed |-> SerialiseAll(expectedIssues, d.fixedIssues),
     new |-> SerialiseAll(resultIssues, d.newIssues)]

----------------------------------------------------------------------------
(* File-level matching *)

HasPath(files, path) == \E i \in 1..Len(files) : files[i].absolutePath = path

\* BettererFileTestResult.getFile(absolutePath)
getFile(files, path) == CHOOSE i \in 1..Len(files) : files[i].absolutePath = path

UnchangedResultFiles(e, r) ==
    LET Keep(j) == \E i \in 1..Len(e) :
            e[i].absolutePath = r[j].absolutePath /\ e[i].hash = r[j].hash
    IN  SelectSeq(Indices(r), Keep)

ChangedResultFiles(e, r) ==
    LET Keep(j) == \E i \in 1..Len(e) :
            e[i].absolutePath = r[j].absolutePath /\ e[i].hash # r[j].hash
    IN  SelectSeq(Indices(r), Keep)

NewOrMovedFiles(e, r) ==
    LET Keep(j) == ~HasPath(e, r[j].absolutePath)
    IN  SelectSeq(Indices(r), Keep)

FixedOrMovedFiles(e, r) ==
    LET Keep(i) == ~HasPath(r, e[i].absolutePath)
    IN  SelectSeq(Indices(e), Keep)

\* newOrMovedFiles.filter((newOrMovedFile) => newOrMovedFile.hash === fixedOrMovedFile.hash)
FilePossibilities(fixedOrMovedFile, r, pool) ==
    LET Keep(j) == r[j].hash = fixedOrMovedFile.hash
    IN  SelectSeq(pool, Keep)

\* Taking the last possibility instead of the first
Moved_last(possibilities) == possibilities[Len(possibilities)]

\* const [moved] = possibilities;
Moved(possibilities) == possibilities[1]

\* movedFiles.set(moved, fixedOrMovedFile)
MapSet(map, key, value) ==
    IF \E i \in 1..Len(map) : map[i].moved = key
    THEN [i \in 1..Len(map) |->
             IF map[i].moved = key THEN [moved |-> key, from |-> value] ELSE map[i]]
    ELSE Append(map, [moved |-> key, from |-> value])

MapHas(map, key) == \E i \in 1..Len(map) : map[i].moved = key

MapGet(map, key) == map[CHOOSE i \in 1..Len(map) : map[i].moved = key].from

MapKeys(map) == [i \in 1..Len(map) |-> map[i].moved]

\* movedFiles.get(resultFile) || expectedΩ.getFile(resultFile.absolutePath)
ExpectedFileOf(map, e, r, resultFile) ==
    IF MapHas(map, resultFile)
    THEN MapGet(map, resultFile)
    ELSE getFile(e, r[resultFile].absolutePath)

----------------------------------------------------------------------------
(* The diff object and the logs *)

\* diff[path] = entry: a new key goes last, an existing key keeps its place
Put(d, path, entry) ==
    IF \E i \in 1..Len(d) : d[i].path = path
    THEN [i \in 1..Len(d) |->
             IF d[i].path = path THEN [path |-> path, entry |-> entry] ELSE d[i]]
    ELSE Append(d, [path |-> path, entry |-> entry])

HasEntry(d, path) == \E i \in 1..Len(d) : d[i].path = path

EntryOf(d, path) == d[CHOOSE i \in 1..Len(d) : d[i].path = path].entry

\* entry.field || []
Field(entry, field) == IF field \in DOMAIN entry THEN entry[field] ELSE <<>>

RECURSIVE PutFixedFiles(_, _, _)
PutFixedFiles(d, e, fixedFiles) ==
    IF fixedFiles = <<>>
    THEN d
    ELSE LET file == e[Head(fixedFiles)]
         IN  PutFixedFiles(
                 Put(d, file.absolutePath,
                     [fixed |-> SerialiseAll(file.issues, Indices(file.issues))]),
                 e, Tail(fixedFiles))

RECURSIVE PutNewFiles(_, _, _)
PutNewFiles(d, r, newFiles) ==
    IF newFiles = <<>>
    THEN d
    ELSE LET file == r[Head(newFiles)]
         IN  PutNewFiles(
                 Put(d, file.absolutePath,
                     [new |-> SerialiseAll(file.issues, Indices(file.issues))]),
                 r, Tail(newFiles))

getIssues(count) == IF count = 1 THEN "issue" ELSE "issues"

\* The log entries pushed for one key of diff
FileLogs(filePath, entry) ==
    LET existing == Field(entry, "existing")
        fixed == Field(entry, "fixed")
        newIssues == Field(entry, "new")
        nIssues == Len(newIssues)
    IN  (IF Len(fixed) # 0
         THEN <<[kind |-> "success", count |-> Len(fixed),
                 noun |-> getIssues(Len(fixed)), filePath |-> filePath]>>
         ELSE <<>>)
        \o
        (IF Len(existing) # 0
         THEN <<[kind |-> "warn", count |-> Len(existing),
                 noun |-> getIssues(Len(existing)), filePath |-> filePath]>>
         ELSE <<>>)
        \o
        (IF nIssues # 0
         THEN <<[kind |-> "error", count |-> 0,
                 noun |-> getIssues(nIssues), filePath |-> filePath]>>
              \o (IF nIssues > 1
                  THEN <<[kind |-> "error", count |-> nIssues,
                          noun |-> "new issues", filePath |-> filePath]>>
                  ELSE <<>>)
              \o <<[kind |-> "code", count |-> 0,
                    noun |-> newIssues[1], filePath |-> filePath]>>
         ELSE <<>>)

RECURSIVE Logs(_)
Logs(d) ==
    IF d = <<>> THEN <<>>
    ELSE FileLogs(Head(d).path, Head(d).entry) \o Logs(Tail(d))

----------------------------------------------------------------------------
(* Inputs of differ() *)

ExpectedIssue ==
    [line : Lines, column : {1}, length : {1}, message : {"m"}, hash : Hashes]

ResultIssue ==
    [line : Lines, column : Columns, length : {1}, message : {"m"}, hash : Hashes]

\* the issue lists of the files when a snapshot has several files
SmallIssueLists ==
    {<<>>, <<[line |-> 1, column |-> 1, length |-> 1, message |-> "m", hash |-> "X"]>>}

UniquePaths(files) ==
    \A i, j \in 1..Len(files) : files[i].absolutePath = files[j].absolutePath => i = j

Snapshots(paths, issueLists) ==
    {files \in SeqsUpTo([absolutePath : paths, hash : FileHashes, issues : issueLists],
                        MaxFiles) : UniquePaths(files)}

\* one file on each side, with any issues
InitIssues ==
    /\ expected \in {<<[absolutePath |-> "a", hash |-> "H1", issues |-> is]>> :
                        is \in SeqsUpTo(ExpectedIssue, MaxIssues)}
    /\ result \in {<<[absolutePath |-> at[1], hash |-> at[2], issues |-> is]>> :
                      at \in {<<"a", "H1">>, <<"a", "H2">>, <<"c", "H1">>},
                      is \in SeqsUpTo(ResultIssue, MaxIssues)}

\* several files on each side, with few issues
InitFiles ==
    /\ expected \in Snapshots(ExpectedPaths, SmallIssueLists)
    /\ result \in Snapshots(ResultPaths, SmallIssueLists)

MergeIdle ==
    /\ mpc = "idle"
    /\ cwd = ""
    /\ config = [results |-> ""]
    /\ args = <<>>
    /\ env = <<>>
    /\ options = <<>>
    /\ mergeCall = <<>>
    /\ exitCode = <<>>
    /\ exitCode0 = <<>>
    /\ outcome = "none"
    /\ settled = "pending"

Init ==
    /\ InitIssues \/ InitFiles
    /\ pc = "start"
    /\ unchangedResultFiles = <<>>
    /\ changedResultFiles = <<>>
    /\ newOrMovedFiles = <<>>
    /\ fixedOrMovedFiles = <<>>
    /\ movedFiles = <<>>
    /\ index = 1
    /\ len = 0
    /\ existingFiles = <<>>
    /\ cursor = 1
    /\ matched = <<>>
    /\ diff = <<>>
    /\ logs = <<>>
    /\ MergeIdle

----------------------------------------------------------------------------
(* differ() *)

\* The four filters over the files of both snapshots
Classify ==
    /\ pc = "start"
    /\ unchangedResultFiles' = UnchangedResultFiles(expected, result)
    /\ changedResultFiles' = ChangedResultFiles(expected, result)
    /\ newOrMovedFiles' = NewOrMovedFiles(expected, result)
    /\ fixedOrMovedFiles' = FixedOrMovedFiles(expected, result)
    /\ movedFiles' = <<>>
    /\ index' = 1
    /\ len' = Len(FixedOrMovedFiles(expected, result))
    /\ pc' = "moves"
    /\ UNCHANGED <<expected, result, existingFiles, cursor, matched, diff, logs>>
    /\ UNCHANGED mergeVars

\* forEach calls its callback for index k only while k is below the length
\* the array had at the start and k is still an index of the array
Visits == index <= len /\ index <= Len(fixedOrMovedFiles)

\* The callback returns early: no new file has the hash of this one
NoMove ==
    /\ pc = "moves"
    /\ Visits
    /\ Len(FilePossibilities(expected[fixedOrMovedFiles[index]], result,
                             newOrMovedFiles)) = 0
    /\ index' = index + 1
    /\ UNCHANGED <<expected, result, pc, unchangedResultFiles, changedResultFiles,
                   newOrMovedFiles, fixedOrMovedFiles, movedFiles, len,
                   existingFiles, cursor, matched, diff, logs>>
    /\ UNCHANGED mergeVars

\* The callback records a move and splices both arrays
Move ==
    /\ pc = "moves"
    /\ Visits
    /\ LET fixedOrMovedFile == fixedOrMovedFiles[index]
           possibilities == FilePossibilities(expected[fixedOrMovedFile], result,
                                              newOrMovedFiles)
       IN  /\ Len(possibilities) # 0
           /\ movedFiles' = MapSet(movedFiles, Moved(possibilities), fixedOrMovedFile)
           /\ fixedOrMovedFiles' = RemoveAt(fixedOrMovedFiles, index)
           /\ newOrMovedFiles' = SpliceOut(newOrMovedFiles, Moved(possibilities))
    /\ index' = index + 1
    /\ UNCHANGED <<expected, result, pc, unchangedResultFiles, changedResultFiles,
                   len, existingFiles, cursor, matched, diff, logs>>
    /\ UNCHANGED mergeVars

\* fixedFiles.forEach, once the forEach over fixedOrMovedFiles has ended
FixedFiles ==
    /\ pc = "moves"
    /\ ~Visits
    /\ diff' = PutFixedFiles(diff, expected, fixedOrMovedFiles)
    /\ pc' = "newFiles"
    /\ UNCHANGED <<expected, result, unchangedResultFiles, changedResultFiles,
                   newOrMovedFiles, fixedOrMovedFiles, movedFiles, index, len,
                   existingFiles, cursor, matched, logs>>
    /\ UNCHANGED mergeVars

\* newFiles.forEach, and the construction of existingFiles
NewFiles ==
    /\ pc = "newFiles"
    /\ diff' = PutNewFiles(diff, result, newOrMovedFiles)
    /\ existingFiles' = unchangedResultFiles \o changedResultFiles \o MapKeys(movedFiles)
    /\ cursor' = 1
    /\ pc' = "existing"
    /\ UNCHANGED <<expected, result, unchangedResultFiles, changedResultFiles,
                   newOrMovedFiles, fixedOrMovedFiles, movedFiles, index, len,
                   matched, logs>>
    /\ UNCHANGED mergeVars

\* The locals of the existingFiles callback for the file under the cursor
Current ==
    LET resultFile == existingFiles[cursor]
        expectedFile == ExpectedFileOf(movedFiles, expected, result, resultFile)
    IN  [resultFile |-> resultFile,
         expectedFile |-> expectedFile,
         issues |-> DiffIssues(expected[expectedFile].issues, result[resultFile].issues)]

\* The callback returns at "If there's no change, move on"
ExistingNoChange ==
    /\ pc = "existing"
    /\ cursor <= Len(existingFiles)
    /\ LET current == Current
       IN  /\ NoChange(current.issues.newIssues, current.issues.fixedIssues)
           /\ matched' = Append(matched, current)
    /\ cursor' = cursor + 1
    /\ UNCHANGED <<expected, result, pc, unchangedResultFiles, changedResultFiles,
                   newOrMovedFiles, fixedOrMovedFiles, movedFiles, index, len,
                   existingFiles, diff, logs>>
    /\ UNCHANGED mergeVars

\* The callback writes the entry of the file
ExistingChange ==
    /\ pc = "existing"
    /\ cursor <= Len(existingFiles)
    /\ LET current == Current
       IN  /\ ~NoChange(current.issues.newIssues, current.issues.fixedIssues)
           /\ diff' = Put(diff, result[current.resultFile].absolutePath,
                          ExistingEntry(expected[current.expectedFile].issues,
                                        result[current.resultFile].issues,
                                        current.issues))
           /\ matched' = Append(matched, current)
    /\ cursor' = cursor + 1
    /\ UNCHANGED <<expected, result, pc, unchangedResultFiles, changedResultFiles,
                   newOrMovedFiles, fixedOrMovedFiles, movedFiles, index, len,
                   existingFiles, logs>>
    /\ UNCHANGED mergeVars

\* Object.keys(diff).forEach, and the return
BuildLogs ==
    /\ pc = "existing"
    /\ cursor > Len(existingFiles)
    /\ logs' = Logs(diff)
    /\ pc' = "done"
    /\ UNCHANGED <<expected, result, unchangedResultFiles, changedResultFiles,
                   newOrMovedFiles, fixedOrMovedFiles, movedFiles, index, len,
                   existingFiles, cursor, matched, diff>>
    /\ UNCHANGED mergeVars

Next ==
    \/ Classify
    \/ NoMove
    \/ Move
    \/ FixedFiles
    \/ NewFiles
    \/ ExistingNoChange
    \/ ExistingChange
    \/ BuildLogs

Spec == Init /\ [][Next]_vars

----------------------------------------------------------------------------
(* The action of the CLI merge command *)

Cwds == {"/repo", "/other"}
ResultsPaths == {".betterer.results", "custom.results"}
Contents == {"ours", "theirs"}
ExitCodes == {<<>>, <<0>>, <<2>>}

DifferIdle ==
    /\ expected = <<>>
    /\ result = <<>>
    /\ pc = "idle"
    /\ unchangedResultFiles = <<>>
    /\ changedResultFiles = <<>>
    /\ newOrMovedFiles = <<>>
    /\ fixedOrMovedFiles = <<>>
    /\ movedFiles = <<>>
    /\ index = 1
    /\ len = 0
    /\ existingFiles = <<>>
    /\ cursor = 1
    /\ matched = <<>>
    /\ diff = <<>>
    /\ logs = <<>>

InitMerge ==
    /\ DifferIdle
    /\ mpc = "start"
    /\ cwd \in Cwds
    /\ config \in [results : ResultsPaths]
    /\ args \in SeqsUpTo(Contents, MaxContents)
    /\ env = <<>>
    /\ options = <<>>
    /\ mergeCall = <<>>
    /\ exitCode \in ExitCodes
    /\ exitCode0 = exitCode
    /\ outcome = "none"
    /\ settled = "pending"

\* setEnv(config)
SetEnv ==
    /\ mpc = "start"
    /\ env' = <<config>>
    /\ mpc' = "options"
    /\ UNCHANGED <<cwd, config, args, options, mergeCall, exitCode, exitCode0,
                   outcome, settled>>
    /\ UNCHANGED differVars

\* const options = { contents: command.args, cwd, resultsPath: config.results }
BuildOptions ==
    /\ mpc = "options"
    /\ options' = <<[contents |-> args, cwd |-> cwd, resultsPath |-> config.results]>>
    /\ mpc' = "try"
    /\ UNCHANGED <<cwd, config, args, env, mergeCall, exitCode, exitCode0,
                   outcome, settled>>
    /\ UNCHANGED differVars

\* betterer.merge(options) returns a promise, which the action awaits
MergeCalled ==
    /\ mpc = "try"
    /\ mergeCall' = options
    /\ mpc' = "await"
    /\ UNCHANGED <<cwd, config, args, env, options, exitCode, exitCode0,
                   outcome, settled>>
    /\ UNCHANGED differVars

\* No catch block: the failure leaves the action and rejects its promise
Uncaught(how) ==
    /\ outcome' = how
    /\ exitCode' = exitCode
    /\ settled' = "rejected"
    /\ mpc' = "done"

\* The catch block, and the end of the action, after a failure of betterer.merge
Caught(how) ==
    /\ outcome' = how
    /\ exitCode' = <<1>>
    /\ settled' = "fulfilled"
    /\ mpc' = "done"

\* betterer.merge(options) throws before it returns a promise
MergeThrows ==
    /\ mpc = "try"
    /\ mergeCall' = options
    /\ Caught("threw")
    /\ UNCHANGED <<cwd, config, args, env, options, exitCode0>>
    /\ UNCHANGED differVars

\* The awaited promise rejects
MergeRejects ==
    /\ mpc = "await"
    /\ Caught("rejected")
    /\ UNCHANGED <<cwd, config, args, env, options, mergeCall, exitCode0>>
    /\ UNCHANGED differVars

\* The awaited promise resolves: the action ends
MergeResolves ==
    /\ mpc = "await"
    /\ outcome' = "resolved"
    /\ settled' = "fulfilled"
    /\ mpc' = "done"
    /\ UNCHANGED <<cwd, config, args, env, options, mergeCall, exitCode, exitCode0>>
    /\ UNCHANGED differVars

NextMerge ==
    \/ SetEnv
    \/ BuildOptions
    \/ MergeCalled
    \/ MergeThrows
    \/ MergeRejects
    \/ MergeResolves

SpecMerge == InitMerge /\ [][NextMerge]_vars

----------------------------------------------------------------------------
(* Properties *)

Count(s, x) == Cardinality({i \in 1..Len(s) : s[i] = x})

IsDone == pc = "done"

\* the pairs of files that went through issue matching, as differ() pairs them
PairOf(k) ==
    LET r == existingFiles[k]
        e == ExpectedFileOf(movedFiles, expected, result, r)
    IN  [resultFile |-> r, expectedFile |-> e, path |-> result[r].absolutePath,
         E |-> expected[e].issues, R |-> result[r].issues]

IsPaired(e) == \E i \in 1..Len(movedFiles) : movedFiles[i].from = e

\* C1: when differ() has returned, every expected file whose path is absent
\* from the result and whose hash is the hash of a result file that is at a
\* path absent from expected and was consumed by no move, has been treated as
\* moved: it is paired with a result file and there is no entry under its path.
C1_EveryMovedFileIsAMove ==
    IsDone =>
        \A e \in 1..Len(expected) :
            (/\ ~HasPath(result, expected[e].absolutePath)
             /\ \E r \in Range(newOrMovedFiles) : result[r].hash = expected[e].hash)
            => (IsPaired(e) /\ ~HasEntry(diff, expected[e].absolutePath))

LineDistance(m, c, j) ==
    Abs(expected[m.expectedFile].issues[c.from].line - result[m.resultFile].issues[j].line)

ColumnDistance(m, c, j) ==
    Abs(expected[m.expectedFile].issues[c.from].column
        - result[m.resultFile].issues[j].column)

\* C2: the result issue chosen as moved has the least line distance to the
\* expected issue among the candidates of the same hash, and the least column
\* distance among those tied with it on line distance.
C2_NearestByLineThenColumn ==
    \A k \in 1..Len(matched) :
        LET m == matched[k] IN
        \A n \in 1..Len(m.issues.choices) :
            LET c == m.issues.choices[n] IN
            \A p \in Range(c.possibilities) :
                \/ LineDistance(m, c, c.best) < LineDistance(m, c, p)
                \/ /\ LineDistance(m, c, c.best) = LineDistance(m, c, p)
                   /\ ColumnDistance(m, c, c.best) <= ColumnDistance(m, c, p)

\* C3: in the exact-match pass, of m expected copies and n result copies of
\* one (line, column, length, hash) tuple exactly min(m, n) are unchanged on
\* each side.
C3_ExactMatchConsumesPairs ==
    \A k \in 1..Len(matched) :
        LET m == matched[k]
            E == expected[m.expectedFile].issues
            R == result[m.resultFile].issues
        IN  \A i \in 1..Len(E) :
                LET copiesE == Cardinality({x \in 1..Len(E) : SameIssue(E[x], E[i])})
                    copiesR == Cardinality({y \in 1..Len(R) : SameIssue(R[y], E[i])})
                IN  /\ Cardinality({x \in Range(m.issues.unchangedExpectedIssues) :
                                       SameIssue(E[x], E[i])}) = Min(copiesE, copiesR)
                    /\ Cardinality({y \in Range(m.issues.unchangedResultIssues) :
                                       SameIssue(R[y], E[i])}) = Min(copiesE, copiesR)

\* C4: when differ() has returned, every entry of diff has a fixed or a new
\* issue, and every file with a fixed or a new issue has an entry, be the
\* file matched by path, matched as moved, or left unmatched.
C4_EntryIffFixedOrNew ==
    IsDone =>
        /\ \A i \in 1..Len(diff) :
               Len(Field(diff[i].entry, "fixed")) + Len(Field(diff[i].entry, "new")) > 0
        /\ \A k \in 1..Len(matched) :
               (Len(matched[k].issues.fixedIssues) + Len(matched[k].issues.newIssues) > 0)
               => HasEntry(diff, result[matched[k].resultFile].absolutePath)
        /\ \A e \in Range(fixedOrMovedFiles) :
               Len(expected[e].issues) > 0 => HasEntry(diff, expected[e].absolutePath)
        /\ \A r \in Range(newOrMovedFiles) :
               Len(result[r].issues) > 0 => HasEntry(diff, result[r].absolutePath)

\* C5: the diff of a snapshot against itself has no entry and no log.
C5_SelfDiffIsEmpty ==
    (IsDone /\ expected = result) => (diff = <<>> /\ logs = <<>>)

C5_Witness ==
    /\ IsDone
    /\ expected = result
    /\ \E i \in 1..Len(expected) : Len(expected[i].issues) >= 2

\* C6: for every pair of files that was matched and has an entry, the
\* expected issues are split into unchanged, moved away and fixed, the result
\* issues into unchanged, moved and new, and the entry has
\* |existing| + |fixed| = number of expected issues and
\* |existing| + |new| = number of result issues.
C6_IssuesPartitioned ==
    IsDone =>
        \A k \in 1..Len(matched) :
            LET m == matched[k]
                path == result[m.resultFile].absolutePath
                E == expected[m.expectedFile].issues
                R == result[m.resultFile].issues
            IN  HasEntry(diff, path) =>
                    /\ Len(m.issues.unchangedExpectedIssues) + Len(m.issues.choices)
                           + Len(m.issues.fixedIssues) = Len(E)
                    /\ Len(m.issues.unchangedResultIssues) + Len(m.issues.movedIssues)
                           + Len(m.issues.newIssues) = Len(R)
                    /\ Len(EntryOf(diff, path).existing) + Len(EntryOf(diff, path).fixed)
                           = Len(E)
                    /\ Len(EntryOf(diff, path).existing) + Len(EntryOf(diff, path).new)
                           = Len(R)

\* the expected issues of a pair whose hash no result issue of the pair has
OnlyInExpected(p) == {i \in 1..Len(p.E) : \A j \in 1..Len(p.R) : p.R[j].hash # p.E[i].hash}

\* the result issues of a pair whose hash no expected issue of the pair has
OnlyInResult(p) == {j \in 1..Len(p.R) : \A i \in 1..Len(p.E) : p.E[i].hash # p.R[j].hash}

\* C7: when differ() has returned, every expected issue whose hash no result
\* issue of its matched file has is in the fixed list of the entry of that
\* file, once for each copy of it, and is not in the existing list.
C7_UnmatchedExpectedHashIsFixed ==
    IsDone =>
        \A k \in 1..Len(existingFiles) :
            LET p == PairOf(k) IN
            \A i \in OnlyInExpected(p) :
                /\ HasEntry(diff, p.path)
                /\ Count(Field(EntryOf(diff, p.path), "fixed"), serialiseIssue(p.E[i]))
                       = Count(p.E, p.E[i])
                /\ Count(Field(EntryOf(diff, p.path), "existing"), serialiseIssue(p.E[i])) = 0

C7_Witness ==
    /\ IsDone
    /\ \E k \in 1..Len(existingFiles) :
           /\ MapHas(movedFiles, existingFiles[k])
           /\ OnlyInExpected(PairOf(k)) # {}
           /\ Len(PairOf(k).R) > 0

\* C8: when differ() has returned, every result issue whose hash no expected
\* issue of its matched file has is in the new list of the entry under the
\* result path, once for each copy of it, and is not in the existing list.
C8_UnmatchedResultHashIsNew ==
    IsDone =>
        \A k \in 1..Len(existingFiles) :
            LET p == PairOf(k) IN
            \A j \in OnlyInResult(p) :
                /\ HasEntry(diff, p.path)
                /\ Count(Field(EntryOf(diff, p.path), "new"), serialiseIssue(p.R[j]))
                       = Count(p.R, p.R[j])
                /\ Count(Field(EntryOf(diff, p.path), "existing"), serialiseIssue(p.R[j])) = 0

C8_Witness ==
    /\ IsDone
    /\ \E k \in 1..Len(matched) :
           /\ ~MapHas(movedFiles, existingFiles[k])
           /\ OnlyInResult(PairOf(k)) # {}
           /\ Len(matched[k].issues.movedIssues) > 0

\* C9: a failure of betterer.merge is caught: the action still ends with its
\* promise fulfilled and process.exitCode is 1; when betterer.merge succeeds
\* process.exitCode is what it was.
C9_MergeFailureSetsExitCode ==
    /\ settled # "rejected"
    /\ outcome \in {"threw", "rejected", "resolved"} => mpc = "done"
    /\ mpc = "done" =>
           /\ settled = "fulfilled"
           /\ outcome \in {"threw", "rejected"} => exitCode = <<1>>
           /\ outcome = "resolved" => exitCode = exitCode0

C9_Witness ==
    /\ mpc = "done"
    /\ outcome = "rejected"
    /\ exitCode0 = <<0>>
    /\ Len(args) = 2

\* a step records a move pairing
MoveRecorded == Len(movedFiles') = Len(movedFiles) + 1

====
